---- MODULE Spec2Model ----
(***************************************************************************)
(* Notes API (backend/main.py): the HTTP routing layer of a note store.    *)
(* The routing layer is modelled from main.py.  The modules it imports     *)
(* (crud, models, database) are modelled from the specification: the Data  *)
(* Access Layer operators crud_*, the request contracts NoteCreate and     *)
(* NoteUpdate, and the storage engine's id assignment.                     *)
(***************************************************************************)
EXTENDS Integers, Sequences, FiniteSets, TLC

(* ------------------------------ bounds --------------------------------- *)
MaxId == 2          \* at most this many notes are ever created
NumReq == 2         \* concurrent request slots (SpecConc)
MaxSessions == 3    \* sessions ever opened (SpecConc)

(* --------------------------- program constants ------------------------- *)
DefaultSkip == 0
DefaultLimit == 100

\* the texts clients send: titles and search terms, and bodies
Titles == {<<>>, <<"a">>, <<"a", "b">>, <<"b", "a">>}

Bodies == {<<>>, <<"a">>}

Requests == 1..NumReq

VARIABLES
  notes,      \* rows of table "notes": records [id, title, body]
  nextId,     \* the storage engine's next auto-assigned primary key
  issued,     \* ids handed out by POST /notes so far (history)
  last,       \* endpoint and status of the most recent response
  pc,         \* per request slot: position in get_db / the handler
  session,    \* per request slot: the session get_db yielded (0: none)
  exitPath,   \* per request slot: how the handler left
  open,       \* sessions created by SessionLocal() and not yet closed
  sessionCount \* sessions created so far

vars == <<notes, nextId, issued, last, pc, session, exitPath, open, sessionCount>>

storeVars == <<notes, nextId, issued>>

connVars == <<pc, session, exitPath, open, sessionCount>>

(* --------------------------- JSON field values -------------------------- *)
\* a field of a JSON body or a query parameter: its kind and, for a text or an
\* integer, its value.  NullCol is the column value NULL.
NullCol == <<"NULL">>

Absent == [kind |-> "absent", v |-> <<>>]

Null == [kind |-> "null", v |-> NullCol]

Bad == [kind |-> "bad", v |-> <<>>]

None == [kind |-> "none", v |-> <<>>]

Text(v) == [kind |-> "text", v |-> v]

IntVal(v) == [kind |-> "int", v |-> v]

IsText(f) == f.kind = "text"

IsSet(f) == f.kind \notin {"absent", "null"}

Min(a, b) == IF a < b THEN a ELSE b

Ids(rows) == {n.id : n \in rows}

(* ------------------- Data Access Layer (module crud) -------------------- *)
\* s is a substring of t
Contains(t, s) == \E i \in 0..(Len(t) - Len(s)) : SubSeq(t, i + 1, i + Len(s)) = s

RECURSIVE OrderById(_)
OrderById(rows) ==
  IF rows = {} THEN <<>>
  ELSE LET m == CHOOSE n \in rows : \A o \in rows : n.id <= o.id
       IN <<m>> \o OrderById(rows \ {m})

Matching(rows, search) ==
  IF search.kind = "text" THEN {n \in rows : Contains(n.title, search.v)} ELSE rows

Window(seq, skip, limit) == SubSeq(seq, skip + 1, Min(skip + limit, Len(seq)))

\* strict: the engine rejects a negative OFFSET / LIMIT; otherwise it reads a
\* negative OFFSET as 0 and a negative LIMIT as no limit.
crud_get_notes(rows, skip, limit, search, strict) ==
  LET all == OrderById(Matching(rows, search))
      off == IF skip < 0 THEN 0 ELSE skip
      lim == IF limit < 0 THEN Len(all) ELSE limit
  IN IF strict /\ (skip < 0 \/ limit < 0)
     THEN [ok |-> FALSE, value |-> <<>>]
     ELSE [ok |-> TRUE, value |-> Window(all, off, lim)]

crud_get_note(rows, note_id) == {n \in rows : n.id = note_id}

\* an engine that assigns the highest stored id plus one
crud_create_note_max_plus_one(rows, next, note) ==
  LET top == IF rows = {} THEN 0 ELSE CHOOSE i \in Ids(rows) : \A j \in Ids(rows) : j <= i
      db_note == [id |-> top + 1, title |-> note.title.v, body |-> note.body.v]
  IN [value |-> db_note, rows |-> rows \cup {db_note}, next |-> next + 1]

crud_create_note(rows, next, note) ==
  LET db_note == [id |-> next, title |-> note.title.v, body |-> note.body.v]
  IN [value |-> db_note, rows |-> rows \cup {db_note}, next |-> next + 1]

\* an update that writes every field the request names, a null included
crud_update_note_writes_null(rows, note_id, note) ==
  LET found == crud_get_note(rows, note_id)
  IN IF found = {} THEN [value |-> {}, rows |-> rows]
     ELSE LET old == CHOOSE n \in found : TRUE
              new == [id |-> old.id,
                      title |-> IF note.title.kind # "absent" THEN note.title.v ELSE old.title,
                      body |-> IF note.body.kind # "absent" THEN note.body.v ELSE old.body]
          IN [value |-> {new}, rows |-> (rows \ {old}) \cup {new}]

crud_update_note(rows, note_id, note) ==
  LET found == crud_get_note(rows, note_id)
  IN IF found = {} THEN [value |-> {}, rows |-> rows]
     ELSE LET old == CHOOSE n \in found : TRUE
              new == [id |-> old.id,
                      title |-> IF IsSet(note.title) THEN note.title.v ELSE old.title,
                      body |-> IF IsSet(note.body) THEN note.body.v ELSE old.body]
          IN [value |-> {new}, rows |-> (rows \ {old}) \cup {new}]

crud_delete_note(rows, note_id) ==
  LET found == crud_get_note(rows, note_id)
  IN [value |-> found # {}, rows |-> rows \ found]

(* ------------------- request contracts (module models) ------------------ *)
NoteCreateValid(note) == IsText(note.title) /\ IsText(note.body)

NoteUpdateValid(note) == note.title.kind # "bad" /\ note.body.kind # "bad"

(* ------------------------ handlers (main.py) ---------------------------- *)
NotFound == [detail |-> "Note not found"]

Invalid == [detail |-> "validation error"]

ServerError == [detail |-> "Internal Server Error"]

Deleted == [message |-> "Note deleted successfully"]

Reply(status, body, dal, rows, next) ==
  [status |-> status, body |-> body, dal |-> dal, rows |-> rows, next |-> next]

root(rows, next) ==
  Reply(200, [message |-> "Notes API", version |-> "1.0.0"], <<>>, rows, next)

\* get_notes calling crud.get_notes without skip
get_notes_no_skip(rows, next, skip, limit, search, strict) ==
  LET call == [op |-> "list", skip |-> DefaultSkip, limit |-> limit, search |-> search]
      res == crud_get_notes(rows, DefaultSkip, limit, search, strict)
  IN IF res.ok THEN Reply(200, res.value, <<call>>, rows, next)
     ELSE Reply(500, ServerError, <<call>>, rows, next)

\* get_notes calling crud.get_notes without search
get_notes_no_search(rows, next, skip, limit, search, strict) ==
  LET call == [op |-> "list", skip |-> skip, limit |-> limit, search |-> None]
      res == crud_get_notes(rows, skip, limit, None, strict)
  IN IF res.ok THEN Reply(200, res.value, <<call>>, rows, next)
     ELSE Reply(500, ServerError, <<call>>, rows, next)

get_notes(rows, next, skip, limit, search, strict) ==
  LET call == [op |-> "list", skip |-> skip, limit |-> limit, search |-> search]
      res == crud_get_notes(rows, skip, limit, search, strict)
  IN IF res.ok THEN Reply(200, res.value, <<call>>, rows, next)
     ELSE Reply(500, ServerError, <<call>>, rows, next)

\* get_note with its None test inverted
get_note_inverted(rows, next, note_id) ==
  LET call == [op |-> "get", id |-> note_id]
      note == crud_get_note(rows, note_id)
  IN IF note # {} THEN Reply(404, NotFound, <<call>>, rows, next)
     ELSE Reply(200, None, <<call>>, rows, next)

get_note(rows, next, note_id) ==
  LET call == [op |-> "get", id |-> note_id]
      note == crud_get_note(rows, note_id)
  IN IF note = {} THEN Reply(404, NotFound, <<call>>, rows, next)
     ELSE Reply(200, CHOOSE n \in note : TRUE, <<call>>, rows, next)

create_note(rows, next, note) ==
  LET call == [op |-> "create", note |-> note]
      res == crud_create_note(rows, next, note)
  IN Reply(201, res.value, <<call>>, res.rows, res.next)

\* update_note with its None test inverted
update_note_inverted(rows, next, note_id, note) ==
  LET call == [op |-> "update", id |-> note_id, note |-> note]
      res == crud_update_note(rows, note_id, note)
  IN IF res.value # {} THEN Reply(404, NotFound, <<call>>, res.rows, next)
     ELSE Reply(200, None, <<call>>, res.rows, next)

update_note(rows, next, note_id, note) ==
  LET call == [op |-> "update", id |-> note_id, note |-> note]
      res == crud_update_note(rows, note_id, note)
  IN IF res.value = {} THEN Reply(404, NotFound, <<call>>, rows, next)
     ELSE Reply(200, CHOOSE n \in res.value : TRUE, <<call>>, res.rows, next)

\* delete_note without the test of what crud.delete_note returned
delete_note_unchecked(rows, next, note_id) ==
  LET call == [op |-> "delete", id |-> note_id]
      res == crud_delete_note(rows, note_id)
  IN Reply(200, Deleted, <<call>>, res.rows, next)

delete_note(rows, next, note_id) ==
  LET call == [op |-> "delete", id |-> note_id]
      res == crud_delete_note(rows, note_id)
  IN IF ~res.value THEN Reply(404, NotFound, <<call>>, rows, next)
     ELSE Reply(200, Deleted, <<call>>, res.rows, next)

(* ------------- routes: FastAPI parameter binding and validation --------- *)
QueryInt(q, default) == IF q.kind = "int" THEN q.v ELSE default

QueryStr(q) == IF q.kind = "text" THEN q ELSE None

GET_notes(rows, next, q, strict) ==
  get_notes(rows, next, QueryInt(q.skip, DefaultSkip), QueryInt(q.limit, DefaultLimit),
            QueryStr(q.search), strict)

\* POST /notes with a body parameter that is not bound to NoteCreate
POST_notes_unvalidated(rows, next, note) == create_note(rows, next, note)

POST_notes(rows, next, note) ==
  IF NoteCreateValid(note) THEN create_note(rows, next, note)
  ELSE Reply(422, Invalid, <<>>, rows, next)

PUT_note(rows, next, note_id, note) ==
  IF NoteUpdateValid(note) THEN update_note(rows, next, note_id, note)
  ELSE Reply(422, Invalid, <<>>, rows, next)

(* ------------------------------ inputs ---------------------------------- *)
PathIds == 1..(MaxId + 1)

QueryInts == {Absent} \cup {IntVal(v) : v \in (-1)..MaxId}

QuerySearches == {Absent} \cup {Text(t) : t \in Titles}

Queries == [skip : QueryInts, limit : QueryInts, search : QuerySearches]

TitleFields == {Absent, Null, Bad} \cup {Text(t) : t \in Titles}

BodyFields == {Absent, Null, Bad} \cup {Text(t) : t \in Bodies}

Payloads == [title : TitleFields, body : BodyFields]

InRange(q) ==
  QueryInt(q.skip, DefaultSkip) >= 0 /\ QueryInt(q.limit, DefaultLimit) >= 0

\* the engines that can be told apart on query q
Engines(q) == IF InRange(q) THEN {FALSE} ELSE BOOLEAN

(* ------------------------------ state ----------------------------------- *)
Init ==
  /\ notes = {}
  /\ nextId = 1
  /\ issued = {}
  /\ last = [op |-> "none", status |-> 0]
  /\ pc = [r \in Requests |-> "idle"]
  /\ session = [r \in Requests |-> 0]
  /\ exitPath = [r \in Requests |-> "none"]
  /\ open = {}
  /\ sessionCount = 0

\* the effect of one request on the store, and the endpoint and status of the
\* response that went out last
Serve(op, res) ==
  /\ notes' = res.rows
  /\ nextId' = res.next
  /\ issued' = IF res.status = 201 THEN issued \cup {res.body.id} ELSE issued
  /\ last' = [op |-> op, status |-> res.status]

DoRoot == Serve("root", root(notes, nextId))

DoList(q) ==
  \E strict \in Engines(q) : Serve("list", GET_notes(notes, nextId, q, strict))

DoGet(id) == Serve("get", get_note(notes, nextId, id))

DoCreate(note) ==
  /\ NoteCreateValid(note) => nextId <= MaxId
  /\ Serve("create", POST_notes(notes, nextId, note))

DoUpdate(id, note) == Serve("update", PUT_note(notes, nextId, id, note))

DoDelete(id) == Serve("delete", delete_note(notes, nextId, id))

ExitOf(status) ==
  IF status < 400 THEN "return"
  ELSE IF status = 404 THEN "HTTPException"
  ELSE IF status = 422 THEN "RequestValidationError"
  ELSE "error"

(* ------------- Spec: requests served one at a time, start to finish ----- *)
\* get_db opens the request's session before the handler and closes it after,
\* so a whole request leaves the set of open sessions as it found it.  The
\* storage engine does not fail here; SpecConc has the failing runs.
ReqRoot == DoRoot /\ UNCHANGED connVars

ReqList == \E q \in Queries : DoList(q) /\ UNCHANGED connVars

ReqGet == \E id \in PathIds : DoGet(id) /\ UNCHANGED connVars

ReqCreate == \E note \in Payloads : DoCreate(note) /\ UNCHANGED connVars

ReqUpdate == \E id \in PathIds, note \in Payloads : DoUpdate(id, note) /\ UNCHANGED connVars

ReqDelete == \E id \in PathIds : DoDelete(id) /\ UNCHANGED connVars

Next == ReqRoot \/ ReqList \/ ReqGet \/ ReqCreate \/ ReqUpdate \/ ReqDelete

Spec == Init /\ [][Next]_vars

(* ------------- SpecConc: requests interleaved, get_db step by step ------ *)
ConcPayloads ==
  {[title |-> Text(<<"a">>), body |-> Text(<<>>)], [title |-> Absent, body |-> Absent],
   [title |-> Bad, body |-> Absent]}

ConcQueries ==
  {[skip |-> Absent, limit |-> Absent, search |-> Absent],
   [skip |-> IntVal(-1), limit |-> Absent, search |-> Absent]}

\* db = SessionLocal(); yield db
get_db_enter(r) ==
  /\ pc[r] \in {"idle", "done"}
  /\ sessionCount < MaxSessions
  /\ sessionCount' = sessionCount + 1
  /\ session' = [session EXCEPT ![r] = sessionCount + 1]
  /\ open' = open \cup {sessionCount + 1}
  /\ pc' = [pc EXCEPT ![r] = "handler"]
  /\ exitPath' = [exitPath EXCEPT ![r] = "none"]
  /\ UNCHANGED <<storeVars, last>>

\* the request is bound, validated and handled with the yielded session
Handle(r) ==
  /\ pc[r] = "handler"
  /\ \/ \E q \in ConcQueries : DoList(q)
     \/ \E id \in PathIds : DoGet(id)
     \/ \E note \in ConcPayloads : DoCreate(note)
     \/ \E id \in PathIds, note \in ConcPayloads : DoUpdate(id, note)
     \/ \E id \in PathIds : DoDelete(id)
  /\ pc' = [pc EXCEPT ![r] = "finally"]
  /\ exitPath' = [exitPath EXCEPT ![r] = ExitOf(last'.status)]
  /\ UNCHANGED <<session, open, sessionCount>>

\* the storage engine fails inside a Data Access Layer call
StorageFailure(r) ==
  /\ pc[r] = "handler"
  /\ \E op \in {"list", "get", "create", "update", "delete"} :
       last' = [op |-> op, status |-> 500]
  /\ pc' = [pc EXCEPT ![r] = "finally"]
  /\ exitPath' = [exitPath EXCEPT ![r] = "error"]
  /\ UNCHANGED <<storeVars, session, open, sessionCount>>

\* get_db without its try/finally: close is reached on a normal return only
get_db_exit_no_finally(r) ==
  /\ pc[r] = "finally"
  /\ open' = IF exitPath[r] = "return" THEN open \ {session[r]} ELSE open
  /\ pc' = [pc EXCEPT ![r] = "done"]
  /\ UNCHANGED <<storeVars, last, session, exitPath, sessionCount>>

\* finally: db.close()
get_db_exit(r) ==
  /\ pc[r] = "finally"
  /\ open' = open \ {session[r]}
  /\ pc' = [pc EXCEPT ![r] = "done"]
  /\ UNCHANGED <<storeVars, last, session, exitPath, sessionCount>>

\* GET / does not depend on get_db: it is served without a session
NextConc ==
  \/ ReqRoot
  \/ \E r \in Requests : get_db_enter(r) \/ Handle(r) \/ StorageFailure(r) \/ get_db_exit(r)

SpecConc == Init /\ [][NextConc]_vars

(* ============================== properties ============================== *)
ValidCreates == {note \in Payloads : NoteCreateValid(note)}

ValidUpdates == {note \in Payloads : NoteUpdateValid(note)}

StoredNotes == [id : 1..MaxId, title : Titles, body : Bodies]

TypeOK == notes \subseteq StoredNotes

\* s occurs in t at some offset k, character by character
OccursIn(s, t) ==
  \E k \in 0..Len(t) :
    /\ k + Len(s) <= Len(t)
    /\ \A j \in 1..Len(s) : t[k + j] = s[j]

Max(a, b) == IF a > b THEN a ELSE b

\* C1: in every reachable store state and for every valid creation input,
\* POST /notes answers 201 with a note that has a newly assigned id and the
\* given title and body, and GET /notes/{id} issued next on that id answers
\* 200 with a note equal to the created one.
Thm_C1 ==
  \A note \in ValidCreates :
    LET c == POST_notes(notes, nextId, note)
        g == get_note(c.rows, c.next, c.body.id)
    IN /\ c.status = 201
       /\ c.body.id \notin Ids(notes) \cup issued
       /\ c.body.title = note.title.v
       /\ c.body.body = note.body.v
       /\ g.status = 200
       /\ g.body = c.body

\* a GET has just answered 200 for a note that POST /notes created
Witness_C1 == last = [op |-> "get", status |-> 200] /\ notes # {} /\ Ids(notes) \subseteq issued

\* C2: for every id never created or already deleted, get and update return
\* absent and delete returns false: GET, PUT and DELETE answer 404 and leave
\* the stored notes unchanged; a successful delete removes the id, so every
\* later delete of it answers 404 again.
Thm_C2 ==
  /\ \A id \in PathIds \ Ids(notes) :
       /\ crud_get_note(notes, id) = {}
       /\ crud_delete_note(notes, id).value = FALSE
       /\ LET g == get_note(notes, nextId, id)
              d == delete_note(notes, nextId, id)
          IN /\ g.status = 404 /\ g.rows = notes
             /\ d.status = 404 /\ d.rows = notes
       /\ \A note \in ValidUpdates :
            LET u == PUT_note(notes, nextId, id, note)
            IN /\ crud_update_note(notes, id, note).value = {}
               /\ u.status = 404 /\ u.rows = notes
  /\ \A id \in Ids(notes) :
       LET d == delete_note(notes, nextId, id)
           again == delete_note(d.rows, d.next, id)
       IN /\ d.status = 200 /\ id \notin Ids(d.rows)
          /\ again.status = 404 /\ again.rows = d.rows

\* a DELETE has just answered 404 while some id was created and deleted before
Witness_C2 ==
  /\ last = [op |-> "delete", status |-> 404]
  /\ issued \ Ids(notes) # {}
  /\ PathIds \ issued # {}

\* C3: an update of an existing note sets exactly the fields the request
\* supplies: a supplied title or body is stored, an absent one keeps the value
\* it had, the id is unchanged and every other stored note is unchanged.
Thm_C3 ==
  \A old \in notes : \A note \in ValidUpdates :
    LET u == PUT_note(notes, nextId, old.id, note)
        new == u.body
    IN /\ u.status = 200
       /\ new.id = old.id
       /\ new.title = IF note.title.kind = "text" THEN note.title.v ELSE old.title
       /\ new.body = IF note.body.kind = "text" THEN note.body.v ELSE old.body
       /\ new \in u.rows
       /\ u.rows \ {new} = notes \ {old}

\* a PUT has just answered 200 while another note is stored as well
Witness_C3 == last = [op |-> "update", status |-> 200] /\ Cardinality(notes) >= 2

\* C4: for every skip s >= 0 and limit l >= 0, GET /notes answers the notes
\* that match, in ascending id order, from offset s on, min(l, matches left
\* after s) of them: the i-th returned note is the match with exactly
\* s + i - 1 matches of smaller id.
Thm_C4 ==
  \A q \in Queries : \A strict \in BOOLEAN :
    InRange(q) =>
      LET s == QueryInt(q.skip, DefaultSkip)
          l == QueryInt(q.limit, DefaultLimit)
          M == IF q.search.kind = "text"
               THEN {n \in notes : OccursIn(q.search.v, n.title)} ELSE notes
          r == GET_notes(notes, nextId, q, strict)
      IN /\ r.status = 200
         /\ Len(r.body) = Min(l, Max(Cardinality(M) - s, 0))
         /\ Len(r.body) <= l
         /\ \A i \in 1..Len(r.body) :
              /\ r.body[i] \in M
              /\ Cardinality({m \in M : m.id < r.body[i].id}) = s + i - 1

\* a list has just been answered while the store can fill and overflow a page
Witness_C4 == last = [op |-> "list", status |-> 200] /\ Cardinality(notes) >= MaxId

\* C5: the notes GET /notes matches for search text t are exactly the stored
\* notes whose title contains t; the body is never matched; no search and an
\* empty search both match every stored note and answer alike for the same
\* skip and limit.
Thm_C5 ==
  /\ \A t \in Titles : \A strict \in BOOLEAN :
       LET r == GET_notes(notes, nextId,
                          [skip |-> Absent, limit |-> Absent, search |-> Text(t)], strict)
       IN /\ r.status = 200
          /\ {r.body[i] : i \in 1..Len(r.body)} = {n \in notes : OccursIn(t, n.title)}
  /\ \A q \in Queries : \A strict \in BOOLEAN :
       (InRange(q) /\ q.search.kind = "absent") =>
         LET none == GET_notes(notes, nextId, q, strict)
             empty == GET_notes(notes, nextId, [q EXCEPT !.search = Text(<<>>)], strict)
         IN /\ none.status = 200
            /\ none.body = empty.body
            /\ (q.skip.kind = "absent" /\ q.limit.kind = "absent") =>
                 {none.body[i] : i \in 1..Len(none.body)} = notes

\* a list has just been answered over a store where a search for "a" has
\* a title to match, and a note to leave out whose body alone holds "a"
Witness_C5 ==
  /\ last = [op |-> "list", status |-> 200]
  /\ \E n, m \in notes :
       /\ OccursIn(<<"a">>, n.title)
       /\ ~OccursIn(<<"a">>, m.title)
       /\ OccursIn(<<"a">>, m.body)

\* C6: no two stored notes share an id; an update leaves every id as it was;
\* the id a create assigns was never assigned before, also when the notes
\* that held the earlier ids, the highest included, have been deleted.
Thm_C6 ==
  /\ \A n, m \in notes : n.id = m.id => n = m
  /\ Ids(notes) \subseteq issued
  /\ \A note \in ValidCreates :
       LET c == POST_notes(notes, nextId, note)
       IN c.status = 201 /\ c.body.id \notin issued /\ c.body.id \notin Ids(notes)
  /\ \A id \in PathIds : \A note \in ValidUpdates :
       LET u == PUT_note(notes, nextId, id, note)
       IN /\ Ids(u.rows) = Ids(notes)
          /\ u.status = 200 => u.body.id = id

\* a create has just assigned an id after the note with the highest id so
\* far was deleted
Witness_C6 ==
  /\ last = [op |-> "create", status |-> 201]
  /\ \E n \in notes : n.id = nextId - 1 /\ (n.id - 1) \in issued \ Ids(notes)

\* C7: every stored note has an id, a title and a body that are not null, and
\* no accepted update (fields absent, null, empty or supplied) stores a null.
Thm_C7 ==
  /\ \A n \in notes : n.id \in Nat /\ n.title # NullCol /\ n.body # NullCol
  /\ notes \subseteq StoredNotes
  /\ \A id \in PathIds : \A note \in ValidUpdates :
       \A n \in PUT_note(notes, nextId, id, note).rows :
         n.id \in Nat /\ n.title # NullCol /\ n.body # NullCol

\* an update has just been accepted and a stored note has an empty title
Witness_C7 ==
  /\ last = [op |-> "update", status |-> 200]
  /\ \E n \in notes : n.title = <<>>

\* C8: a POST /notes whose title or body is missing or wrongly typed, and a
\* PUT /notes/{id} with a wrongly typed field, answer 422, invoke no Data
\* Access Layer operation and leave the store unchanged.
Thm_C8 ==
  /\ \A note \in Payloads :
       ({note.title.kind, note.body.kind} \cap {"absent", "bad"} # {}) =>
         LET c == POST_notes(notes, nextId, note)
         IN c.status = 422 /\ c.dal = <<>> /\ c.rows = notes /\ c.next = nextId
  /\ \A id \in PathIds : \A note \in Payloads :
       ("bad" \in {note.title.kind, note.body.kind}) =>
         LET u == PUT_note(notes, nextId, id, note)
         IN u.status = 422 /\ u.dal = <<>> /\ u.rows = notes /\ u.next = nextId

\* a PUT has just been rejected with 422 while notes are stored
Witness_C8 == last = [op |-> "update", status |-> 422] /\ notes # {}

\* C9: every request in flight holds a session of its own, open while the
\* handler runs; the session is closed once the request has ended, whichever
\* way the handler left; with no request in flight no session is open.
Thm_C9 ==
  /\ \A r1, r2 \in Requests :
       (r1 # r2 /\ pc[r1] \in {"handler", "finally"} /\ pc[r2] \in {"handler", "finally"})
         => session[r1] # session[r2]
  /\ \A r \in Requests : pc[r] \in {"handler", "finally"} => session[r] \in open
  /\ \A r \in Requests : pc[r] = "done" => session[r] \notin open
  /\ (\A r \in Requests : pc[r] \in {"idle", "done"}) => open = {}

\* two requests have ended, one by a 404 HTTPException and one by a storage
\* failure, after running side by side
Witness_C9 ==
  \E r1, r2 \in Requests :
    /\ pc[r1] = "done" /\ exitPath[r1] = "HTTPException"
    /\ pc[r2] = "done" /\ exitPath[r2] = "error"
    /\ session[r1] > 0 /\ session[r2] > 0

\* C10: whatever skip and limit a client sends, the Data Access Layer's list
\* operation is invoked with a non-negative skip and a positive limit only.
Claim_C10 ==
  \A q \in Queries : \A strict \in BOOLEAN :
    LET r == GET_notes(notes, nextId, q, strict)
    IN \A i \in 1..Len(r.dal) : r.dal[i].skip >= 0 /\ r.dal[i].limit > 0

====
